---- MODULE Spec2Model ----
(***************************************************************************)
(* Model of the spaced-repetition scheduler of anki-hero                   *)
(* (src/electron/scheduler.ts) and of the rating step that applies it to   *)
(* a card's stored review state (src/electron/main.ts, 'api:rate').        *)
(*                                                                         *)
(* Number representation.  The source computes with IEEE doubles.  Here    *)
(*   - difficulty is a fixed-point integer in units of 1/100               *)
(*     (0.5 is 50, the drift +0.12 is +12),                                *)
(*   - ease is a fixed-point integer in units of 1/1000 (2.5 is 2500),     *)
(*   - ivl_days, reps, lapses, learning_stage, suspended are integers,     *)
(*   - timestamps are integers in milliseconds.                            *)
(* Every product that the source rounds is formed exactly as a fraction    *)
(* num/den and rounded by MathRound, which is Math.round (half goes up).   *)
(* For difficulty on the 1/100 grid and intervals up to 24 days the double *)
(* result of the source is the exact one except at one argument, where the *)
(* double product falls below a half the exact product reaches             *)
(* (doubleBelowHalf); ivl_days * 0.5 and 2 + 2 * ease are exact.  The      *)
(* rounding error a stored difficulty accumulates over a sequence of calls *)
(* (0.5 reached as 0.4999999999999998) is not represented.                 *)
(***************************************************************************)
EXTENDS Integers, FiniteSets, Sequences, TLC

\* ------------------------------------------------------------------ bounds
\* largest interval, in days, a stored state may hold in the model
MaxIvl == 20
\* largest reps a stored state may hold in the model
MaxReps == 3
\* largest lapses a stored state may hold in the model
MaxLapses == 8
\* number of clock advances in a behaviour
MaxTicks == 1
\* number of rating submissions for the card in a behaviour
MaxSubmissions == 2
\* number of cards in the deck
MaxCards == 2
\* number of 'api:rate' calls the review queue handles in a behaviour
MaxRatings == 3
\* number of invocations of the review screen's callbacks in flight at once
MaxTasks == 2
\* number of 'api:rate' calls the review screen issues in a behaviour
MaxIssued == 2

\* --------------------------------------------------------------- constants
ONE_MIN_MS == 60000
ONE_HOUR_MS == 60 * ONE_MIN_MS
ONE_DAY_MS == 86400000
LEECH_LAPSES == 8

\* LEARNING_STEPS_MS = [10 * ONE_MIN_MS, 60 * ONE_MIN_MS]
LEARNING_STEPS_MS == << 10 * ONE_MIN_MS, 60 * ONE_MIN_MS >>

\* type Rating = 0 | 1 | 2 | 3
Rating == 0 .. 3
\* values outside the Rating type that an untyped caller can pass
BadRating == {4, 5}

Min2(a, b) == IF a <= b THEN a ELSE b
Max2(a, b) == IF a >= b THEN a ELSE b

\* Math.round with a half going down
MathRound_halfDown(num, den) == (2 * num + den - 1) \div (2 * den)

\* Math.round(num / den) for den > 0: the nearest integer, a half going up
MathRound(num, den) == (2 * num + den) \div (2 * den)

\* clamp without its lower bound
clamp_noLower(n, lo, hi) == Min2(hi, n)

\* clamp(n, lo, hi) = Math.min(hi, Math.max(lo, n))
clamp(n, lo, hi) == Min2(hi, Max2(lo, n))

\* easeFromDifficulty with a slope of 1.0 in place of 1.2
easeFromDifficulty_slopeOne(difficulty) == clamp(2500 - difficulty * 10, 1300, 2600)

\* easeFromDifficulty: clamp(2.5 - difficulty * 1.2, 1.3, 2.6), in 1/1000
easeFromDifficulty(difficulty) == clamp(2500 - difficulty * 12, 1300, 2600)

\* driftDifficulty with Hard leaving the difficulty as it is
driftDifficulty_hardNoDrift(difficulty, rating) ==
  IF rating = 0 THEN clamp(difficulty + 12, 0, 100)
  ELSE IF rating = 1 THEN clamp(difficulty, 0, 100)
  ELSE IF rating = 2 THEN clamp(difficulty - 2, 0, 100)
  ELSE IF rating = 3 THEN clamp(difficulty - 8, 0, 100)
  ELSE difficulty

\* the difficulty drift of schedule, in 1/100; an unknown rating drifts nothing
driftDifficulty(difficulty, rating) ==
  IF rating = 0 THEN clamp(difficulty + 12, 0, 100)
  ELSE IF rating = 1 THEN clamp(difficulty + 6, 0, 100)
  ELSE IF rating = 2 THEN clamp(difficulty - 2, 0, 100)
  ELSE IF rating = 3 THEN clamp(difficulty - 8, 0, 100)
  ELSE difficulty

\* schedule without the suspension short-circuit
isSuspended_never(state) == FALSE

\* if (suspended): any non-zero value short-circuits
isSuspended(state) == state.suspended # 0

\* inLearning that looks at reps only, so that a lapsed card is in review
inLearning_newOnly(state) == state.reps = 0

\* const inLearning = learning_stage > 0 || reps === 0
inLearning(state) == state.learning_stage > 0 \/ state.reps = 0

\* ivl_days || 1 : a zero interval reads as 1
OrOne(ivl_days) == IF ivl_days = 0 THEN 1 ELSE ivl_days

\* the leech check with > in place of >=
leechSuspended_offByOne(lapses, suspended) ==
  IF lapses > LEECH_LAPSES THEN 1 ELSE suspended

\* if (lapses >= LEECH_LAPSES) suspended = 1
leechSuspended(lapses, suspended) ==
  IF lapses >= LEECH_LAPSES THEN 1 ELSE suspended

\* learningStage with Hard advancing a rung as Good does
learningStage_hardAdvances(state, rating) ==
  LET entered == IF state.reps = 0 /\ state.learning_stage = 0
                 THEN 1 ELSE state.learning_stage
  IN entered + 1

\* learningStage without the entry of a brand-new card into rung 1
learningStage_noEntry(state, rating) ==
  IF rating = 2 THEN state.learning_stage + 1 ELSE state.learning_stage

\* the rung a Hard/Good rating leaves a learning card on: a brand-new card
\* first enters rung 1, Good then advances one rung
learningStage(state, rating) ==
  LET entered == IF state.reps = 0 /\ state.learning_stage = 0
                 THEN 1 ELSE state.learning_stage
  IN IF rating = 2 THEN entered + 1 ELSE entered

\* stepIdx one rung too low
stepIdx_offByOne(learning_stage) == Max2(0, learning_stage - 2)

\* const stepIdx = Math.max(0, learning_stage - 1), a 0-based index
stepIdx(learning_stage) == Max2(0, learning_stage - 1)

\* LEARNING_STEPS_MS[stepIdx]; TLA+ sequences are 1-based
stepMs(idx) == LEARNING_STEPS_MS[idx + 1]

\* the arguments of case 1, within the intervals of the model, at which the
\* double product lies below a half that the exact product reaches: in
\* doubles 0.1 * 0.75 is 0.07500000000000001, 0.7 + 0.07500000000000001 is
\* 0.7749999999999999 and 20 * 0.7749999999999999 is 15.499999999999998, which
\* Math.round takes to 15 where 20 * 0.775 = 15.5 goes to 16
doubleBelowHalf(ivl_days, difficulty) == ivl_days = 20 /\ difficulty = 75

\* Math.round(ivl_days * (0.7 + 0.1 * difficulty)) as the doubles give it
hardRound(ivl_days, difficulty) ==
  IF doubleBelowHalf(ivl_days, difficulty)
  THEN MathRound(ivl_days * (700 + difficulty), 1000) - 1
  ELSE MathRound(ivl_days * (700 + difficulty), 1000)

\* reviewIvl with Good multiplying by the ease alone
reviewIvl_goodByEase(ivl_days, rating, difficulty, ease) ==
  IF rating = 0 THEN Max2(1, MathRound(ivl_days, 2))
  ELSE IF rating = 1 THEN Max2(1, hardRound(ivl_days, difficulty))
  ELSE IF rating = 2 THEN Max2(1, MathRound(ivl_days * ease, 1000))
  ELSE Max2(1, MathRound(ivl_days * (12000 + 8 * ease), 10000))

\* reviewIvl without the floor of one day
reviewIvl_noFloor(ivl_days, rating, difficulty, ease) ==
  IF rating = 0 THEN MathRound(ivl_days, 2)
  ELSE IF rating = 1 THEN hardRound(ivl_days, difficulty)
  ELSE IF rating = 2 THEN MathRound(ivl_days * (2000 + ease), 2000)
  ELSE MathRound(ivl_days * (12000 + 8 * ease), 10000)

\* the interval the review-mode switch computes for ratings 0..3
\*   0: max(1, round(ivl * 0.5))
\*   1: max(1, round(ivl * (0.7 + 0.1 * difficulty)))
\*   2: max(1, round(ivl * (1.0 + ease * 0.5)))
\*   3: max(1, round(ivl * (1.2 + ease * 0.8)))
reviewIvl(ivl_days, rating, difficulty, ease) ==
  IF rating = 0 THEN Max2(1, MathRound(ivl_days, 2))
  ELSE IF rating = 1 THEN Max2(1, hardRound(ivl_days, difficulty))
  ELSE IF rating = 2 THEN Max2(1, MathRound(ivl_days * (2000 + ease), 2000))
  ELSE Max2(1, MathRound(ivl_days * (12000 + 8 * ease), 10000))

\* easyIvl truncating instead of rounding
easyIvl_truncated(ease) == Max2(1, (2000 + 2 * ease) \div 1000)

\* the interval Easy gives a card in learning: max(1, round(2 + 2 * ease))
easyIvl(ease) == Max2(1, MathRound(2000 + 2 * ease, 1000))

\* learningFail halving the interval as a review-mode fail does
learningFail_halved(state, difficulty, ease, now) ==
  [ivl_days |-> Max2(1, MathRound(state.ivl_days, 2)),
   ease |-> ease,
   reps |-> Max2(0, state.reps),
   lapses |-> state.lapses + 1,
   due_ts |-> now + stepMs(0),
   learning_stage |-> 1,
   difficulty |-> difficulty,
   suspended |-> leechSuspended(state.lapses + 1, state.suspended)]

\* learning mode, rating 0
learningFail(state, difficulty, ease, now) ==
  [ivl_days |-> Max2(1, OrOne(state.ivl_days)),
   ease |-> ease,
   reps |-> Max2(0, state.reps),
   lapses |-> state.lapses + 1,
   due_ts |-> now + stepMs(0),
   learning_stage |-> 1,
   difficulty |-> difficulty,
   suspended |-> leechSuspended(state.lapses + 1, state.suspended)]

\* learningStep graduating one rung late, the last step repeated
learningStep_lateGraduation(state, rating, difficulty, ease, now) ==
  LET learning_stage == learningStage(state, rating)
  IN IF learning_stage <= Len(LEARNING_STEPS_MS) + 1
     THEN [ivl_days |-> Max2(1, OrOne(state.ivl_days)),
           ease |-> ease,
           reps |-> Max2(0, state.reps),
           lapses |-> state.lapses,
           due_ts |-> now + stepMs(Min2(stepIdx(learning_stage),
                                        Len(LEARNING_STEPS_MS) - 1)),
           learning_stage |-> learning_stage,
           difficulty |-> difficulty,
           suspended |-> state.suspended]
     ELSE [ivl_days |-> 1,
           ease |-> ease,
           reps |-> Max2(0, state.reps) + 1,
           lapses |-> state.lapses,
           due_ts |-> now + ONE_DAY_MS,
           learning_stage |-> 0,
           difficulty |-> difficulty,
           suspended |-> state.suspended]

\* learning mode, rating 1 or 2: a step on the ladder, or graduation once the
\* ladder is exhausted
learningStep(state, rating, difficulty, ease, now) ==
  LET learning_stage == learningStage(state, rating)
  IN IF learning_stage <= Len(LEARNING_STEPS_MS)
     THEN [ivl_days |-> Max2(1, OrOne(state.ivl_days)),
           ease |-> ease,
           reps |-> Max2(0, state.reps),
           lapses |-> state.lapses,
           due_ts |-> now + stepMs(stepIdx(learning_stage)),
           learning_stage |-> learning_stage,
           difficulty |-> difficulty,
           suspended |-> state.suspended]
     ELSE [ivl_days |-> 1,
           ease |-> ease,
           reps |-> Max2(0, state.reps) + 1,
           lapses |-> state.lapses,
           due_ts |-> now + ONE_DAY_MS,
           learning_stage |-> 0,
           difficulty |-> difficulty,
           suspended |-> state.suspended]

\* learning mode, rating 3
learningEasy(state, difficulty, ease, now) ==
  [ivl_days |-> easyIvl(ease),
   ease |-> ease,
   reps |-> Max2(0, state.reps) + 1,
   lapses |-> state.lapses,
   due_ts |-> now + easyIvl(ease) * ONE_DAY_MS,
   learning_stage |-> 0,
   difficulty |-> difficulty,
   suspended |-> state.suspended]

\* reviewFail resetting reps, as a lapse that un-graduates the card would
reviewFail_resetReps(state, difficulty, ease, now) ==
  [ivl_days |-> reviewIvl(state.ivl_days, 0, difficulty, ease),
   ease |-> ease,
   reps |-> 0,
   lapses |-> state.lapses + 1,
   due_ts |-> now + stepMs(0),
   learning_stage |-> 1,
   difficulty |-> difficulty,
   suspended |-> leechSuspended(state.lapses + 1, state.suspended)]

\* review mode, case 0
reviewFail(state, difficulty, ease, now) ==
  [ivl_days |-> reviewIvl(state.ivl_days, 0, difficulty, ease),
   ease |-> ease,
   reps |-> state.reps,
   lapses |-> state.lapses + 1,
   due_ts |-> now + stepMs(0),
   learning_stage |-> 1,
   difficulty |-> difficulty,
   suspended |-> leechSuspended(state.lapses + 1, state.suspended)]

\* reviewPass that counts no repetition
reviewPass_noRep(state, rating, difficulty, ease, now) ==
  LET ivl_days == reviewIvl(state.ivl_days, rating, difficulty, ease)
  IN [ivl_days |-> ivl_days,
      ease |-> ease,
      reps |-> Max2(0, state.reps),
      lapses |-> state.lapses,
      due_ts |-> now + ivl_days * ONE_DAY_MS,
      learning_stage |-> state.learning_stage,
      difficulty |-> difficulty,
      suspended |-> state.suspended]

\* reviewPass multiplying by the stored ease instead of the recomputed one
reviewPass_storedEase(state, rating, difficulty, ease, now) ==
  LET ivl_days == reviewIvl(state.ivl_days, rating, difficulty, state.ease)
  IN [ivl_days |-> ivl_days,
      ease |-> ease,
      reps |-> Max2(0, state.reps) + 1,
      lapses |-> state.lapses,
      due_ts |-> now + ivl_days * ONE_DAY_MS,
      learning_stage |-> state.learning_stage,
      difficulty |-> difficulty,
      suspended |-> state.suspended]

\* review mode, cases 1, 2, 3 and the code after the switch
reviewPass(state, rating, difficulty, ease, now) ==
  LET ivl_days == reviewIvl(state.ivl_days, rating, difficulty, ease)
  IN [ivl_days |-> ivl_days,
      ease |-> ease,
      reps |-> Max2(0, state.reps) + 1,
      lapses |-> state.lapses,
      due_ts |-> now + ivl_days * ONE_DAY_MS,
      learning_stage |-> state.learning_stage,
      difficulty |-> difficulty,
      suspended |-> state.suspended]

Returned(s) == [threw |-> FALSE, state |-> s]
Thrown(s) == [threw |-> TRUE, state |-> s]

\* schedule(state, rating, now): the returned state, or threw = TRUE when the
\* call throws (the state field then repeats the input and means nothing).
\* A rating outside 0..3 matches no learning-mode branch and falls through
\* to the default case of the review-mode switch.
schedule(state, rating, now) ==
  LET difficulty == driftDifficulty(state.difficulty, rating)
      ease == easeFromDifficulty(difficulty)
  IN
  IF isSuspended(state) THEN Returned(state)
  ELSE IF inLearning(state) /\ rating = 0
    THEN Returned(learningFail(state, difficulty, ease, now))
  ELSE IF inLearning(state) /\ rating \in {1, 2}
    THEN Returned(learningStep(state, rating, difficulty, ease, now))
  ELSE IF inLearning(state) /\ rating = 3
    THEN Returned(learningEasy(state, difficulty, ease, now))
  ELSE IF rating = 0
    THEN Returned(reviewFail(state, difficulty, ease, now))
  ELSE IF rating \in {1, 2, 3}
    THEN Returned(reviewPass(state, rating, difficulty, ease, now))
  ELSE Thrown(state)

\* ------------------------------------------------------------------- state
\* card: the SchedulerState a sequence of schedule calls threads through
\* now:  the clock the calls read (Date.now())
\* call: the last schedule call: its input state, rating and now, whether it
\*       threw, and the state it returned
VARIABLES card, now, call

\* the rating step of the main process ('api:rate'), which reads the card's
\* stored state, calls schedule and writes the result back:
\* handler:   per rating submission, where its handler invocation stands (pc),
\*            the rating it carries and the handler's locals (state, next)
\*            with the clock value its schedule call read
\* running:   the submission whose handler the event loop of the main
\*            process is executing, 0 when the loop is free
\* new_shown: daily_stats.new_shown of the card's deck for today
\* log:       the writes of the stored state in the order they happened:
\*            who wrote, what it had read, what was stored just before, and
\*            what it stored
VARIABLES handler, running, new_shown, log

rateVars == << handler, running, new_shown, log >>

\* the review queue of one deck, as the main process serves it to the
\* renderer ('api:nextCard', 'api:rate'):
\* reviews:       the reviews table, one stored row per card of the deck
\* daily_new_cap: decks.daily_new_cap of the deck
\* shown:         the last answer of 'api:nextCard': the card returned (0
\*                for null), the query that found it, the clock and the
\*                counter the call read, the rows as they were stored, and
\*                the number of 'api:rate' calls made for the card since
\* lastRate:      the last 'api:rate' call: the card, the rating, the row it
\*                read and the row it stored
\* rated:         the number of 'api:rate' calls handled
VARIABLES reviews, daily_new_cap, shown, lastRate, rated

queueVars == << reviews, daily_new_cap, shown, lastRate, rated >>

\* the review screen of the renderer (ReviewScreen):
\* screen: the component's state: card (the id of the card it holds, 0 for
\*         null), loadingCard, sentence (whether the trimmed sentence is
\*         non-empty), attempts (their number), judging, awaitingRating and
\*         showingFeedback
\* tasks:  the invocations of the screen's async callbacks that are between
\*         two awaits: where each stands (pc), the callback it runs (kind),
\*         the card and attempts its closure captured, the rating it
\*         submits and the answer of 'api:nextCard' it received
\* issued: the number of 'api:rate' calls the screen has issued for the
\*         card it holds since setCard loaded it
VARIABLES screen, tasks, issued

screenVars == << screen, tasks, issued >>

vars == << card, now, call, handler, running, new_shown, log, reviews,
           daily_new_cap, shown, lastRate, rated, screen, tasks, issued >>

\* the state attachReviewRow gives a card when it first becomes presentable
DefaultState ==
  [ivl_days |-> 0, ease |-> 2500, reps |-> 0, lapses |-> 0, due_ts |-> 0,
   learning_stage |-> 0, difficulty |-> 50, suspended |-> 0]

\* input values for a state of any shape the SchedulerState type admits.  The
\* reviews table does not range-check its columns: difficulty is taken inside
\* and outside [0, 1]; ease is the default 2.5 or a value above 2.6, which the
\* earlier scheduler (ease += 0.15, no upper bound) left in rows that the
\* schema migration keeps; the stage goes one beyond the ladder and lapses
\* lie around the leech threshold
IvlInputs == {0, 1, 2, 3, 5, 10, 20}
EaseInputs == {2500, 3000}
RepsInputs == {0, 1, 2}
LapsesInputs == {0, 6, 7}
StageInputs == 0 .. 3
DifficultyInputs == {-20, 0, 4, 50, 69, 94, 100, 130}
SuspendedInputs == {0, 1}
DueInputs == {0, ONE_DAY_MS}

SchedulerState ==
  [ivl_days : IvlInputs, ease : EaseInputs, reps : RepsInputs,
   lapses : LapsesInputs, due_ts : DueInputs, learning_stage : StageInputs,
   difficulty : DifficultyInputs, suspended : SuspendedInputs]

NoCall(s) ==
  [done |-> FALSE, state |-> s, rating |-> 0, now |-> 0, threw |-> FALSE,
   result |-> s]

\* the model keeps intervals, reps and lapses within its bounds: a call whose
\* result would leave them is not taken
Capped(state, rating) ==
  LET difficulty == driftDifficulty(state.difficulty, rating)
      ease == easeFromDifficulty(difficulty)
  IN /\ (state.suspended = 0 /\ ~inLearning(state) /\ rating \in 1 .. 3)
          => reviewIvl(state.ivl_days, rating, difficulty, ease) <= MaxIvl
     /\ schedule(state, rating, 0).state.reps <= MaxReps
     /\ schedule(state, rating, 0).state.lapses <= MaxLapses

\* the rating submissions of a behaviour
Submission == 1 .. MaxSubmissions

\* a submission that has not been made
Idle == [pc |-> "idle", rating |-> 0, state |-> DefaultState,
         next |-> DefaultState, now |-> 0]

\* no rating has been submitted, nothing counted and nothing written
NoRate ==
  /\ handler = [i \in Submission |-> Idle]
  /\ running = 0
  /\ new_shown = 0
  /\ log = << >>

\* the cards of the deck
Card == 1 .. MaxCards

\* decks.daily_new_cap when nobody set it (column default; row?.cap ?? 20)
DailyNewCapDefault == 20

\* nothing returned by 'api:nextCard' yet
NotShown(rows) ==
  [done |-> FALSE, id |-> 0, via |-> "none", now |-> 0, new_shown |-> 0,
   rows |-> rows, rates |-> 0]

\* no 'api:rate' call yet
NotRated ==
  [done |-> FALSE, id |-> 0, rating |-> 0, before |-> DefaultState,
   after |-> DefaultState]

\* a deck of new cards with the cap the schema gives a deck, nothing
\* presented and nothing rated
NoQueue ==
  /\ reviews = [c \in Card |-> DefaultState]
  /\ daily_new_cap = DailyNewCapDefault
  /\ shown = NotShown(reviews)
  /\ lastRate = NotRated
  /\ rated = 0

\* the invocations of async callbacks the screen has in flight at once
Task == 1 .. MaxTasks

\* a slot without an invocation
NoTask ==
  [pc |-> "idle", kind |-> "none", id |-> 0, rating |-> 0, attempts |-> 0,
   next |-> 0]

\* the state ReviewScreen's useState calls start from
Unmounted ==
  [card |-> 0, loadingCard |-> FALSE, sentence |-> FALSE, attempts |-> 0,
   judging |-> FALSE, awaitingRating |-> FALSE, showingFeedback |-> FALSE]

\* no review screen
NoScreen ==
  /\ screen = Unmounted
  /\ tasks = [t \in Task |-> NoTask]
  /\ issued = 0

\* a card's state machine starts in the default state
Init ==
  /\ card = DefaultState
  /\ now = 0
  /\ call = NoCall(card)
  /\ NoRate
  /\ NoQueue
  /\ NoScreen

\* the function's inputs drawn from the bounded sets
InitAny ==
  /\ card \in SchedulerState \cup {DefaultState}
  /\ now = 0
  /\ call = NoCall(card)
  /\ NoRate
  /\ NoQueue
  /\ NoScreen

\* one call schedule(card, rating, now); the returned state is the card's
\* next state, a throwing call leaves the card as it was
Schedule(rating) ==
  /\ Capped(card, rating)
  /\ LET res == schedule(card, rating, now)
     IN /\ card' = IF res.threw THEN card ELSE res.state
        /\ call' = [done |-> TRUE, state |-> card, rating |-> rating,
                    now |-> now, threw |-> res.threw, result |-> res.state]
  /\ UNCHANGED << now, rateVars, queueVars, screenVars >>

\* the clock advances
Tick ==
  /\ now < MaxTicks * ONE_HOUR_MS
  /\ now' = now + ONE_HOUR_MS
  /\ UNCHANGED << card, call, rateVars, queueVars, screenVars >>

Next ==
  \/ \E rating \in Rating \cup BadRating : Schedule(rating)
  \/ Tick

Spec == Init /\ [][Next]_vars

\* the function applied once to an input drawn from the bounded sets
ScheduleInput(rating) == ~call.done /\ Schedule(rating)

NextAny ==
  \/ \E rating \in Rating \cup BadRating : ScheduleInput(rating)
  \/ Tick

SpecAny == InitAny /\ [][NextAny]_vars

\* ------------------------------------------------------- the rating step
\* stored rows the rating step starts from: the default row, a graduated
\* card and a graduated card one lapse from the leech threshold
RateRows ==
  {DefaultState,
   [DefaultState EXCEPT !.reps = 2, !.ivl_days = 5, !.ease = 1900],
   [DefaultState EXCEPT !.reps = 2, !.ivl_days = 5, !.ease = 1900,
                        !.lapses = 7]}

InitRate ==
  /\ card \in RateRows
  /\ now = 0
  /\ call = NoCall(card)
  /\ NoRate
  /\ NoQueue
  /\ NoScreen

\* a handler whose statements are each their own turn of the event loop, as
\* an async handler awaiting between them would be
Turn_awaiting(i) == TRUE

\* the handler registered for 'api:rate' is a plain function without await:
\* the event loop starts it when the loop is free and runs nothing else
\* until it returns
Turn(i) ==
  IF handler[i].pc = "queued" THEN running = 0 ELSE running = i

\* the renderer submits a rating: window.api.rate(card.id, rating)
Invoke(i, rating) ==
  /\ handler[i].pc = "idle"
  /\ handler' = [handler EXCEPT ![i].pc = "queued", ![i].rating = rating]
  /\ UNCHANGED << card, now, call, running, new_shown, log, queueVars,
                  screenVars >>

\* const state = getReviewState(cardId); the handler is started for a
\* submission whose schedule call stays within the bounds of the model
GetReviewState(i) ==
  /\ handler[i].pc = "queued"
  /\ Turn(i)
  /\ Capped(card, handler[i].rating)
  /\ handler' = [handler EXCEPT ![i].pc = "read", ![i].state = card]
  /\ running' = i
  /\ UNCHANGED << card, now, call, new_shown, log, queueVars, screenVars >>

\* const next = schedule({...state}, rating): now is Date.now(); a throw
\* ends the handler with nothing written
CallSchedule(i) ==
  /\ handler[i].pc = "read"
  /\ Turn(i)
  /\ LET res == schedule(handler[i].state, handler[i].rating, now)
     IN IF res.threw
        THEN /\ handler' = [handler EXCEPT ![i].pc = "rejected", ![i].now = now]
             /\ running' = 0
        ELSE /\ handler' = [handler EXCEPT ![i].pc = "scheduled",
                                           ![i].next = res.state,
                                           ![i].now = now]
             /\ running' = running
  /\ UNCHANGED << card, now, call, new_shown, log, queueVars, screenVars >>

\* updateReviewState({cardId, dueTs: next.due_ts, ...}): all eight columns
\* of the row are set from next
UpdateReviewState(i) ==
  /\ handler[i].pc = "scheduled"
  /\ Turn(i)
  /\ card' = handler[i].next
  /\ log' = Append(log, [id |-> i, rating |-> handler[i].rating,
                         now |-> handler[i].now, read |-> handler[i].state,
                         before |-> card, after |-> handler[i].next])
  /\ handler' = [handler EXCEPT ![i].pc = "written"]
  /\ UNCHANGED << now, call, running, new_shown, queueVars, screenVars >>

\* if (state.reps === 0 && next.reps > 0) incrementNewShownToday(deckId);
\* the handler returns
IncrementNewShownToday(i) ==
  /\ handler[i].pc = "written"
  /\ Turn(i)
  /\ new_shown' = IF handler[i].state.reps = 0 /\ handler[i].next.reps > 0
                  THEN new_shown + 1 ELSE new_shown
  /\ handler' = [handler EXCEPT ![i].pc = "done"]
  /\ running' = 0
  /\ UNCHANGED << card, now, call, log, queueVars, screenVars >>

NextRate ==
  \/ \E i \in Submission, rating \in Rating \cup BadRating : Invoke(i, rating)
  \/ \E i \in Submission : GetReviewState(i)
  \/ \E i \in Submission : CallSchedule(i)
  \/ \E i \in Submission : UpdateReviewState(i)
  \/ \E i \in Submission : IncrementNewShownToday(i)
  \/ Tick

SpecRate == InitRate /\ [][NextRate]_vars

\* ------------------------------------------------------- the review queue
\* rows the deck's cards start from: a new card, and a graduated card that
\* is due and one lapse from the leech threshold
QueueRows ==
  {DefaultState,
   [DefaultState EXCEPT !.reps = 2, !.ivl_days = 5, !.ease = 1900,
                        !.lapses = 7]}

\* values of decks.daily_new_cap
CapInputs == {0, 1, 2}

InitQueue ==
  /\ card = DefaultState
  /\ now = 0
  /\ call = NoCall(card)
  /\ NoRate
  /\ reviews \in [Card -> QueueRows]
  /\ daily_new_cap \in CapInputs
  /\ shown = NotShown(reviews)
  /\ lastRate = NotRated
  /\ rated = 0
  /\ NoScreen

\* a due query that does not look at r.suspended
DueCards_withSuspended(rows, t) ==
  {c \in Card : /\ rows[c].due_ts <= t
                /\ rows[c].learning_stage > 0 \/ rows[c].reps > 0}

\* 1) the due query: WHERE r.suspended = 0 AND r.due_ts <= @now
\*    AND (r.learning_stage > 0 OR r.reps > 0)
DueCards(rows, t) ==
  {c \in Card : /\ rows[c].suspended = 0
                /\ rows[c].due_ts <= t
                /\ rows[c].learning_stage > 0 \/ rows[c].reps > 0}

\* an order by card id alone
Before_byId(rows, c, d) == c <= d

\* ORDER BY r.due_ts ASC, c.id ASC
Before(rows, c, d) ==
  \/ rows[c].due_ts < rows[d].due_ts
  \/ rows[c].due_ts = rows[d].due_ts /\ c <= d

\* LIMIT 1 of the due query
FirstDue(rows, t) ==
  CHOOSE c \in DueCards(rows, t) :
    \A d \in DueCards(rows, t) : Before(rows, c, d)

\* 2) the new-card query: WHERE r.suspended = 0 AND r.reps = 0
NewCards(rows) ==
  {c \in Card : rows[c].suspended = 0 /\ rows[c].reps = 0}

\* const canShowNew = newShown < cap
canShowNew(newShown, cap) == newShown < cap

\* the answers getNextReviewCard can give: the first due card; else, when
\* new cards may be shown, any card of the new-card query (ORDER BY
\* RANDOM() LIMIT 1); else null
getNextReviewCard(rows, t, newShown, cap) ==
  IF DueCards(rows, t) # {}
  THEN {[id |-> FirstDue(rows, t), via |-> "due"]}
  ELSE IF canShowNew(newShown, cap) /\ NewCards(rows) # {}
       THEN {[id |-> c, via |-> "new"] : c \in NewCards(rows)}
       ELSE {[id |-> 0, via |-> "none"]}

\* the handler of 'api:nextCard'
NextCard ==
  /\ \E row \in getNextReviewCard(reviews, now, new_shown, daily_new_cap) :
       shown' = [done |-> TRUE, id |-> row.id, via |-> row.via, now |-> now,
                 new_shown |-> new_shown, rows |-> reviews, rates |-> 0]
  /\ UNCHANGED << card, now, call, rateVars, reviews, daily_new_cap,
                  lastRate, rated, screenVars >>

\* the handler of 'api:rate', run from its first statement to its last:
\* getReviewState, schedule, updateReviewState and the new-card accounting
apiRate(cardId, rating) ==
  /\ rated < MaxRatings
  /\ Capped(reviews[cardId], rating)
  /\ LET state == reviews[cardId]
         next == schedule(state, rating, now).state
     IN /\ reviews' = [reviews EXCEPT ![cardId] = next]
        /\ new_shown' = IF state.reps = 0 /\ next.reps > 0
                        THEN new_shown + 1 ELSE new_shown
        /\ lastRate' = [done |-> TRUE, id |-> cardId, rating |-> rating,
                        before |-> state, after |-> next]
  /\ rated' = rated + 1
  /\ UNCHANGED << card, now, call, handler, running, log, daily_new_cap >>

\* 'api:rate' called for the card the renderer holds
Rate(rating) ==
  /\ shown.done /\ shown.id # 0
  /\ apiRate(shown.id, rating)
  /\ shown' = [shown EXCEPT !.rates = @ + 1]
  /\ UNCHANGED screenVars

NextQueue ==
  \/ NextCard
  \/ \E rating \in Rating : Rate(rating)
  \/ Tick

SpecQueue == InitQueue /\ [][NextQueue]_vars

\* ------------------------------------------------------ the review screen
\* const MAX_ATTEMPTS = 3
MAX_ATTEMPTS == 3

\* result.verdict of judgeSentence
Verdict == {"right", "unsure", "wrong"}

\* mounted with a deck of new cards selected: the effect has called
\* loadNextCard, which has set loadingCard and awaits 'api:nextCard'
InitScreen ==
  /\ card = DefaultState
  /\ now = 0
  /\ call = NoCall(card)
  /\ NoRate
  /\ NoQueue
  /\ screen = [Unmounted EXCEPT !.loadingCard = TRUE]
  /\ tasks = [t \in Task |->
                IF t = 1 THEN [NoTask EXCEPT !.pc = "nextCard", !.kind = "load"]
                ELSE NoTask]
  /\ issued = 0

\* a slot for a new invocation
FreeTask(t) ==
  /\ tasks[t].pc = "idle"
  /\ \A u \in Task : tasks[u].pc = "idle" => t <= u

\* the screen may issue one more 'api:rate' call: those handled and those
\* awaiting their handler are fewer than the model lets a behaviour have
MayIssue ==
  rated + Cardinality({t \in Task : tasks[t].pc = "rate"}) < MaxIssued

\* handleManualRate(rating): if (!card || judging) return; then
\* await window.api.rate(card.id, rating)
handleManualRate(t, rating) ==
  /\ screen.card # 0 /\ ~screen.judging
  /\ MayIssue
  /\ FreeTask(t)
  /\ tasks' = [tasks EXCEPT ![t] = [NoTask EXCEPT !.pc = "rate",
                                                 !.kind = "manual",
                                                 !.id = screen.card,
                                                 !.rating = rating]]
  /\ issued' = issued + 1
  /\ UNCHANGED << card, now, call, rateVars, queueVars, screen >>

\* a rating key (Digit1..Digit4) pressed outside the textarea: the window's
\* keydown handler, installed in every rendering of the screen, returns
\* only if (!card)
KeyRate(t, rating) == handleManualRate(t, rating)

\* a click on a button of the rating panel, which is rendered, with no
\* disabled attribute, whenever a card is shown
ClickRate(t, rating) ==
  /\ ~screen.loadingCard
  /\ handleManualRate(t, rating)

\* the user types a sentence into the textarea (rendered when no feedback
\* is shown, disabled={judging})
Type ==
  /\ screen.card # 0 /\ ~screen.loadingCard
  /\ ~screen.showingFeedback /\ ~screen.judging
  /\ ~screen.sentence
  /\ screen' = [screen EXCEPT !.sentence = TRUE]
  /\ UNCHANGED << card, now, call, rateVars, queueVars, tasks, issued >>

\* handleSubmit up to its first await: the guard, setJudging(true) and
\* window.api.judgeSentence(card.id, trimmed)
handleSubmit(t) ==
  /\ screen.card # 0 /\ ~screen.loadingCard
  /\ screen.sentence /\ ~screen.judging
  /\ ~screen.awaitingRating /\ ~screen.showingFeedback
  /\ FreeTask(t)
  /\ screen' = [screen EXCEPT !.judging = TRUE]
  /\ tasks' = [tasks EXCEPT ![t] = [NoTask EXCEPT !.pc = "judge",
                                                 !.kind = "submit",
                                                 !.id = screen.card,
                                                 !.attempts = screen.attempts]]
  /\ UNCHANGED << card, now, call, rateVars, queueVars, issued >>

\* handleSubmit resumes with the verdict: the attempt is recorded and the
\* feedback shown; 'right' asks for a rating, the MAX_ATTEMPTS-th 'wrong'
\* issues window.api.rate(card.id, 0) for the card the closure holds, and
\* anything else clears the sentence; finally setJudging(false) unless the
\* callback is left awaiting.  The number of attempts is kept up to
\* MAX_ATTEMPTS, the only value it is compared with
Judged(t, verdict) ==
  /\ tasks[t].pc = "judge"
  /\ LET nextAttempts == Min2(tasks[t].attempts + 1, MAX_ATTEMPTS)
     IN IF verdict = "wrong" /\ nextAttempts >= MAX_ATTEMPTS
        THEN /\ MayIssue
             /\ screen' = [screen EXCEPT !.attempts = nextAttempts,
                                         !.showingFeedback = TRUE]
             /\ tasks' = [tasks EXCEPT ![t].pc = "rate", ![t].rating = 0]
             /\ issued' = IF tasks[t].id = screen.card THEN issued + 1
                          ELSE issued
        ELSE /\ screen' = [screen EXCEPT !.attempts = nextAttempts,
                                         !.showingFeedback = TRUE,
                                         !.sentence = FALSE,
                                         !.awaitingRating =
                                            IF verdict = "right" THEN TRUE
                                            ELSE @,
                                         !.judging = FALSE]
             /\ tasks' = [tasks EXCEPT ![t] = NoTask]
             /\ issued' = issued
  /\ UNCHANGED << card, now, call, rateVars, queueVars >>

\* handleTryAgain, behind the button shown with the feedback unless a
\* rating is awaited
handleTryAgain ==
  /\ screen.card # 0 /\ ~screen.loadingCard
  /\ screen.showingFeedback /\ ~screen.awaitingRating
  /\ screen.attempts > 0
  /\ screen' = [screen EXCEPT !.sentence = FALSE, !.showingFeedback = FALSE]
  /\ UNCHANGED << card, now, call, rateVars, queueVars, tasks, issued >>

\* the main process handles the 'api:rate' call of an invocation
HandleRate(t) ==
  /\ tasks[t].pc = "rate"
  /\ apiRate(tasks[t].id, tasks[t].rating)
  /\ tasks' = [tasks EXCEPT ![t].pc = "rated"]
  /\ UNCHANGED << shown, screen, issued >>

\* the callback resumes after window.api.rate and invalidateQueries:
\* setAwaitingRating(false) or setSentence(''), then loadNextCard up to its
\* await: loadingCard is set, the sentence, the attempts and the three
\* flags are reset, and 'api:nextCard' is called
loadNextCard(t) ==
  /\ tasks[t].pc = "rated"
  /\ screen' = [screen EXCEPT !.loadingCard = TRUE, !.sentence = FALSE,
                              !.attempts = 0, !.judging = FALSE,
                              !.awaitingRating = FALSE,
                              !.showingFeedback = FALSE]
  /\ tasks' = [tasks EXCEPT ![t].pc = "nextCard"]
  /\ UNCHANGED << card, now, call, rateVars, queueVars, issued >>

\* the main process handles the 'api:nextCard' call of an invocation
HandleNextCard(t) ==
  /\ tasks[t].pc = "nextCard"
  /\ \E row \in getNextReviewCard(reviews, now, new_shown, daily_new_cap) :
       tasks' = [tasks EXCEPT ![t].pc = "loaded", ![t].next = row.id]
  /\ UNCHANGED << card, now, call, rateVars, queueVars, screen, issued >>

\* loadNextCard resumes with the answer: setCard(next) and, finally,
\* setLoadingCard(false); handleSubmit, when it was the caller, ends with
\* its own finally, setJudging(false)
setCard(t) ==
  /\ tasks[t].pc = "loaded"
  /\ screen' = [screen EXCEPT !.card = tasks[t].next,
                              !.loadingCard = FALSE,
                              !.judging = IF tasks[t].kind = "submit"
                                          THEN FALSE ELSE @]
  /\ tasks' = [tasks EXCEPT ![t] = NoTask]
  /\ issued' = 0
  /\ UNCHANGED << card, now, call, rateVars, queueVars >>

NextScreen ==
  \/ \E t \in Task, rating \in Rating : KeyRate(t, rating)
  \/ \E t \in Task, rating \in Rating : ClickRate(t, rating)
  \/ Type
  \/ \E t \in Task : handleSubmit(t)
  \/ \E t \in Task, verdict \in Verdict : Judged(t, verdict)
  \/ handleTryAgain
  \/ \E t \in Task : HandleRate(t)
  \/ \E t \in Task : loadNextCard(t)
  \/ \E t \in Task : HandleNextCard(t)
  \/ \E t \in Task : setCard(t)

SpecScreen == InitScreen /\ [][NextScreen]_vars

\* ------------------------------------------------------------------ claims
\* the last call, when there is one
In == call.state
Out == call.result
Called(ratings) == call.done /\ call.rating \in ratings
Rated(ratings) == Called(ratings) /\ In.suspended = 0

\* k is num/den rounded to the nearest integer, a half going up
RoundsTo(num, den, k) == 2 * den * k <= 2 * num + den /\ 2 * num + den < 2 * den * (k + 1)

AtLeastOne(k) == IF k >= 1 THEN k ELSE 1

\* C1: a call on a suspended state, with any rating 0..3 and any now, returns
\* a state whose eight fields all equal the input's.
SuspensionIsSticky ==
  (Called(0 .. 3) /\ In.suspended = 1) =>
    /\ ~call.threw
    /\ Out.ivl_days = In.ivl_days
    /\ Out.ease = In.ease
    /\ Out.reps = In.reps
    /\ Out.lapses = In.lapses
    /\ Out.due_ts = In.due_ts
    /\ Out.learning_stage = In.learning_stage
    /\ Out.difficulty = In.difficulty
    /\ Out.suspended = In.suspended

\* a suspended card whose due time has passed is rated Again
SuspensionIsStickyWitness ==
  /\ Called({0}) /\ In.suspended = 1
  /\ In.due_ts < call.now
  /\ In.difficulty = 50
  /\ card = In

\* C2: rating 0 on a non-suspended state with lapses = 7 returns lapses = 8
\* and suspended = 1, in learning mode and in review mode; with lapses = 6 it
\* returns lapses = 7 and suspended = 0.
LeechThreshold ==
  Rated({0}) =>
    /\ ~call.threw
    /\ In.lapses = 7 => (Out.lapses = 8 /\ Out.suspended = 1)
    /\ In.lapses = 6 => (Out.lapses = 7 /\ Out.suspended = 0)

\* a review-mode card fails for the eighth time
LeechThresholdWitness ==
  /\ Rated({0}) /\ In.lapses = 7
  /\ In.learning_stage = 0 /\ In.reps > 0
  /\ In.difficulty = 50
  /\ Out.suspended = 1

\* C3: a call with a rating outside 0..3 signals the error and returns no
\* state, whatever the input state (suspended ones included).
InvalidRatingRejected ==
  (call.done /\ call.rating \notin 0 .. 3) => call.threw

InBounds(state) ==
  /\ 0 <= state.difficulty /\ state.difficulty <= 100
  /\ 1300 <= state.ease /\ state.ease <= 2600

\* C4: a call with rating 0..3 on a non-suspended state, whatever difficulty
\* and ease it stores, returns difficulty in [0, 1] and ease in [1.3, 2.6];
\* the default state is within both bounds and a call on a state within them
\* leaves the card within them, so every state reachable from the default
\* state is.
DifficultyAndEaseBounds ==
  /\ Rated(0 .. 3) => (~call.threw /\ InBounds(Out))
  /\ InBounds(DefaultState)
  /\ (call.done /\ InBounds(In)) => InBounds(card)

\* a state stored with difficulty and ease outside their ranges is rated
DifficultyAndEaseBoundsWitness ==
  /\ Rated({3})
  /\ In.difficulty < 0 /\ In.ease > 2600
  /\ Out.difficulty = 0 /\ Out.ease = 2500

\* C5: for every rating 0..3 and every input with reps >= 0 (learning mode,
\* review mode, suspended passthrough) the returned reps is >= the input's.
MonotonicReps ==
  (Called(0 .. 3) /\ In.reps >= 0) => (~call.threw /\ Out.reps >= In.reps)

\* a graduated card lapses and keeps its reps
MonotonicRepsWitness ==
  /\ Rated({0})
  /\ In.learning_stage = 0 /\ In.reps = 2
  /\ In.difficulty = 50
  /\ Out.reps = 2 /\ Out.learning_stage = 1

\* C6: a call with rating 0..3 on a non-suspended state returns an integer
\* ivl_days >= 1, also from ivl_days = 0 and reps = 0.
IntervalFloor ==
  Rated(0 .. 3) => (~call.threw /\ Out.ivl_days \in Nat /\ Out.ivl_days >= 1)

\* a graduated card stored with a zero interval is rated Hard
IntervalFloorWitness ==
  /\ Rated({1})
  /\ In.ivl_days = 0 /\ In.learning_stage = 0 /\ In.reps > 0
  /\ In.difficulty = 50
  /\ Out.ivl_days = 1

BrandNew(state) == state.reps = 0 /\ state.learning_stage = 0

\* C7 as stated: Good on a non-suspended brand-new card returns
\* learning_stage = 1.
NewCardGoodStageOne ==
  (Rated({2}) /\ BrandNew(In)) => (~call.threw /\ Out.learning_stage = 1)

\* C7 amended: Good on a non-suspended brand-new card returns
\* learning_stage = 2 (the card enters rung 1 and Good advances it one rung).
NewCardGoodStageTwo ==
  (Rated({2}) /\ BrandNew(In)) => (~call.threw /\ Out.learning_stage = 2)

\* the default card is rated Good
NewCardGoodStageTwoWitness ==
  /\ Rated({2}) /\ In = DefaultState
  /\ card.learning_stage = 2

\* C8: Good on a non-suspended brand-new card at time now returns
\* due_ts = now + 3,600,000 ms, reps = 0 and the input's lapses.
NewCardGoodTiming ==
  (Rated({2}) /\ BrandNew(In)) =>
    /\ ~call.threw
    /\ Out.due_ts = call.now + 3600000
    /\ Out.reps = 0
    /\ Out.lapses = In.lapses

\* a brand-new card is rated Good after the clock has advanced
NewCardGoodTimingWitness ==
  /\ Rated({2}) /\ BrandNew(In)
  /\ call.now > 0
  /\ In.difficulty = 50
  /\ Out.due_ts = call.now + 3600000

\* ease recomputed from the difficulty drifted by Easy, in 1/1000
EaseAfterEasy(difficulty) ==
  LET d == IF difficulty - 8 < 0 THEN 0
           ELSE IF difficulty - 8 > 100 THEN 100 ELSE difficulty - 8
      e == 2500 - 12 * d
  IN IF e < 1300 THEN 1300 ELSE IF e > 2600 THEN 2600 ELSE e

\* C9: Easy on a non-suspended card in learning mode (learning_stage > 0 or
\* reps = 0) returns learning_stage = 0, reps + 1,
\* ivl_days = max(1, round(2 + 2 * ease')) and due_ts = now + ivl_days days;
\* with difficulty 0.5 that is 6 days.
EasyGraduatesImmediately ==
  (Rated({3}) /\ (In.learning_stage > 0 \/ In.reps = 0)) =>
    /\ ~call.threw
    /\ Out.learning_stage = 0
    /\ Out.reps = In.reps + 1
    /\ \E k \in 0 .. 8 :
         /\ RoundsTo(2000 + 2 * EaseAfterEasy(In.difficulty), 1000, k)
         /\ Out.ivl_days = AtLeastOne(k)
    /\ Out.due_ts = call.now + Out.ivl_days * 86400000
    /\ In.difficulty = 50 =>
         (Out.ivl_days = 6 /\ Out.due_ts = call.now + 6 * 86400000)

\* the default card is rated Easy
EasyGraduatesImmediatelyWitness ==
  /\ Rated({3}) /\ In = DefaultState
  /\ card.ivl_days = 6 /\ card.reps = 1 /\ card.learning_stage = 0

\* C10: Again on a non-suspended review-mode card (learning_stage = 0,
\* reps > 0) at time now returns lapses + 1, learning_stage = 1,
\* due_ts = now + 600,000 ms, ivl_days = max(1, round(ivl_days * 0.5)) with a
\* half rounded up, and reps unchanged; ivl_days 10 gives 5.
ReviewFailRelapses ==
  (Rated({0}) /\ In.learning_stage = 0 /\ In.reps > 0) =>
    /\ ~call.threw
    /\ Out.lapses = In.lapses + 1
    /\ Out.learning_stage = 1
    /\ Out.due_ts = call.now + 600000
    /\ \E k \in 0 .. In.ivl_days :
         RoundsTo(In.ivl_days, 2, k) /\ Out.ivl_days = AtLeastOne(k)
    /\ Out.reps = In.reps
    /\ In.ivl_days = 10 => Out.ivl_days = 5
    /\ In.ivl_days = 5 => Out.ivl_days = 3

\* a review-mode card with an odd interval lapses
ReviewFailRelapsesWitness ==
  /\ Rated({0}) /\ In.learning_stage = 0 /\ In.reps > 0
  /\ In.ivl_days = 5 /\ Out.ivl_days = 3
  /\ In.difficulty = 50
  /\ Out.lapses = In.lapses + 1

\* the drift the claim gives each rating, in 1/100, and its clamping to [0, 1]
DriftOf(rating) ==
  CASE rating = 0 -> 12 [] rating = 1 -> 6 [] rating = 2 -> -2 [] rating = 3 -> -8

Drifted(difficulty, rating) ==
  LET d == difficulty + DriftOf(rating)
  IN IF d < 0 THEN 0 ELSE IF d > 100 THEN 100 ELSE d

\* 2.5 - 1.2 * difficulty within [1.3, 2.6], in 1/1000
DerivedEase(difficulty) ==
  LET e == 2500 - 12 * difficulty
  IN IF e < 1300 THEN 1300 ELSE IF e > 2600 THEN 2600 ELSE e

\* C11: for every non-suspended state and rating 0..3, in every branch, the
\* returned difficulty is the input's plus +0.12, +0.06, -0.02, -0.08 (for
\* ratings 0, 1, 2, 3) clamped to [0, 1], and the returned ease is
\* 2.5 - 1.2 * (returned difficulty) clamped to [1.3, 2.6].
DifficultyDriftAndEase ==
  Rated(0 .. 3) =>
    /\ ~call.threw
    /\ Out.difficulty = Drifted(In.difficulty, call.rating)
    /\ Out.ease = DerivedEase(Out.difficulty)

\* a card on the last rung graduates by Good: difficulty 0.5 becomes 0.48
\* and ease 1.924
DifficultyDriftAndEaseWitness ==
  /\ Rated({2})
  /\ In.learning_stage = 2 /\ Out.learning_stage = 0
  /\ In.difficulty = 50 /\ In.ease = 3000
  /\ Out.difficulty = 48 /\ Out.ease = 1924

\* the input of the last call with another stored ease and due_ts
WithEaseAndDue(ease, due_ts) == [In EXCEPT !.ease = ease, !.due_ts = due_ts]

\* C12: two non-suspended inputs that differ only in the stored ease and/or
\* the stored due_ts give, with the same rating and the same now, the same
\* output state: neither stored value reaches any output field.
EaseIsAViewOfDifficulty ==
  Rated(0 .. 3) =>
    \A ease \in EaseInputs, due_ts \in DueInputs :
      schedule(WithEaseAndDue(ease, due_ts), call.rating, call.now) = Returned(Out)

\* a review-mode card stored with ease 3.0 and a due time of one day is
\* rated Good and gets the interval that ease 2.5 and due time 0 also give
EaseIsAViewOfDifficultyWitness ==
  /\ Rated({2})
  /\ In.learning_stage = 0 /\ In.reps > 0 /\ In.ivl_days = 5
  /\ In.ease = 3000 /\ In.due_ts = ONE_DAY_MS
  /\ In.difficulty = 50
  /\ WithEaseAndDue(2500, 0) # In
  /\ Out.ivl_days = 10 /\ Out.ease = 1924

\* C13: in a sequence of calls from the default state, suspended goes from 0
\* to 1 only in a call with rating 0, and once a state has suspended = 1
\* every later call, whatever its rating, leaves the whole state as it is.
SuspendedIsTerminal ==
  [][/\ (card.suspended = 0 /\ card'.suspended = 1) =>
          (call'.done /\ call'.state = card /\ call'.rating = 0)
     /\ card.suspended = 1 => card' = card]_vars

\* the default card has been suspended by its eighth lapse and is then
\* rated Easy, which leaves it as it was
SuspendedIsTerminalWitness ==
  /\ Called({3}) /\ In.suspended = 1 /\ In.lapses = 8
  /\ card = In
  /\ card.suspended = 1

\* what the learning rules do that the review rules do not: a fail keeps the
\* interval, Hard/Good leave on a rung of the ladder with the interval and
\* reps as they were or graduate to one day, Easy gives the interval of a
\* graduation, which does not come from the stored one
ByLearningRules ==
  /\ call.rating = 0 => Out.ivl_days = AtLeastOne(In.ivl_days)
  /\ call.rating \in {1, 2} =>
       \/ /\ Out.learning_stage \in {1, 2}
          /\ Out.reps = In.reps
          /\ Out.ivl_days = AtLeastOne(In.ivl_days)
          /\ Out.due_ts \in {call.now + 600000, call.now + 3600000}
       \/ /\ Out.learning_stage = 0
          /\ Out.reps = In.reps + 1
          /\ Out.ivl_days = 1
          /\ Out.due_ts = call.now + 86400000
  /\ call.rating = 3 =>
       \E k \in 0 .. 8 :
         RoundsTo(2000 + 2 * Out.ease, 1000, k) /\ Out.ivl_days = AtLeastOne(k)

\* what the review rules do: a fail halves the interval, a success counts a
\* repetition and is due a whole number of days from now
ByReviewRules ==
  /\ call.rating = 0 =>
       \E k \in 0 .. In.ivl_days :
         RoundsTo(In.ivl_days, 2, k) /\ Out.ivl_days = AtLeastOne(k)
  /\ call.rating \in {1, 2, 3} =>
       /\ Out.reps = In.reps + 1
       /\ Out.learning_stage = 0
       /\ Out.due_ts = call.now + Out.ivl_days * 86400000

\* C14: a non-suspended card is processed by the learning rules exactly when
\* learning_stage > 0 or reps = 0, and by the review rules otherwise; a
\* lapsed card (reps > 0, learning_stage >= 1) rated Hard or Good stays on
\* the ladder with its interval and reps untouched until it graduates.
ModeSelection ==
  Rated(0 .. 3) =>
    /\ ~call.threw
    /\ (In.learning_stage > 0 \/ In.reps = 0) => ByLearningRules
    /\ ~(In.learning_stage > 0 \/ In.reps = 0) => ByReviewRules
    /\ (In.reps > 0 /\ In.learning_stage >= 1 /\ call.rating \in {1, 2}
          /\ Out.learning_stage # 0) =>
         (Out.ivl_days = AtLeastOne(In.ivl_days) /\ Out.reps = In.reps)

\* a lapsed card on rung 1, with two repetitions and an interval of 5 days,
\* is rated Hard and stays on rung 1 with both
ModeSelectionWitness ==
  /\ Rated({1})
  /\ In.reps = 2 /\ In.learning_stage = 1 /\ In.ivl_days = 5
  /\ In.difficulty = 50
  /\ Out.learning_stage = 1 /\ Out.ivl_days = 5 /\ Out.reps = 2

\* the rung the claim gives a learning card after Hard or Good
RungAfter(state, rating) ==
  LET current == IF BrandNew(state) THEN 1 ELSE state.learning_stage
  IN IF rating = 2 THEN current + 1 ELSE current

\* C15: in learning mode Hard keeps the current rung (a brand-new card enters
\* rung 1) and Good advances exactly one rung; a resulting rung <= 2 is
\* returned with due_ts = now + 10 min (rung 1) or now + 1 hour (rung 2) and
\* reps unchanged; a resulting rung above 2 graduates the card:
\* learning_stage = 0, reps + 1, ivl_days = 1, due_ts = now + 86,400,000 ms.
LearningLadder ==
  (Rated({1, 2}) /\ (In.learning_stage > 0 \/ In.reps = 0)) =>
    /\ ~call.threw
    /\ RungAfter(In, call.rating) = 1 =>
         /\ Out.learning_stage = 1
         /\ Out.due_ts = call.now + 600000
         /\ Out.reps = In.reps
    /\ RungAfter(In, call.rating) = 2 =>
         /\ Out.learning_stage = 2
         /\ Out.due_ts = call.now + 3600000
         /\ Out.reps = In.reps
    /\ RungAfter(In, call.rating) > 2 =>
         /\ Out.learning_stage = 0
         /\ Out.reps = In.reps + 1
         /\ Out.ivl_days = 1
         /\ Out.due_ts = call.now + 86400000
    /\ RungAfter(In, call.rating) >= 1

\* the default card is rated Hard and enters rung 1, due in ten minutes
LearningLadderWitness ==
  /\ Rated({1}) /\ In = DefaultState
  /\ card.learning_stage = 1 /\ card.reps = 0
  /\ card.due_ts = call.now + 600000

\* C16: Again on a non-suspended card in learning mode (learning_stage > 0
\* or reps = 0) returns lapses + 1, learning_stage = 1,
\* due_ts = now + 600,000 ms, reps unchanged and
\* ivl_days = max(1, input ivl_days): the interval is never forced to 0 and
\* never reduced by a fail inside the ladder.
LearningFailKeepsInterval ==
  (Rated({0}) /\ (In.learning_stage > 0 \/ In.reps = 0)) =>
    /\ ~call.threw
    /\ Out.lapses = In.lapses + 1
    /\ Out.learning_stage = 1
    /\ Out.due_ts = call.now + 600000
    /\ Out.reps = In.reps
    /\ Out.ivl_days = (IF In.ivl_days > 1 THEN In.ivl_days ELSE 1)
    /\ Out.ivl_days >= In.ivl_days

\* a lapsed card on rung 2 with an interval of 10 days fails again and keeps
\* the 10 days
LearningFailKeepsIntervalWitness ==
  /\ Rated({0})
  /\ In.learning_stage = 2 /\ In.reps = 2 /\ In.ivl_days = 10
  /\ In.difficulty = 50
  /\ Out.ivl_days = 10 /\ Out.learning_stage = 1

\* k is max(1, round(num / den)), a half going up
FlooredRound(num, den, k) ==
  \/ RoundsTo(num, den, k) /\ k >= 1
  \/ k = 1 /\ RoundsTo(num, den, 0)

\* C17: Hard, Good or Easy on a non-suspended review-mode card
\* (learning_stage = 0, reps > 0) returns
\* ivl_days = max(1, round(ivl_days * f)), a half rounded up, with
\* f = 0.7 + 0.1 * difficulty' for Hard, 1.0 + 0.5 * ease' for Good and
\* 1.2 + 0.8 * ease' for Easy (difficulty', ease' the drifted values),
\* reps + 1, due_ts = now + ivl_days * 86,400,000, learning_stage = 0 and
\* lapses unchanged.
ReviewSuccessIntervals ==
  (Rated({1, 2, 3}) /\ In.learning_stage = 0 /\ In.reps > 0) =>
    /\ ~call.threw
    /\ call.rating = 1 =>
         FlooredRound(In.ivl_days * (700 + Out.difficulty), 1000, Out.ivl_days)
    /\ call.rating = 2 =>
         FlooredRound(In.ivl_days * (2000 + Out.ease), 2000, Out.ivl_days)
    /\ call.rating = 3 =>
         FlooredRound(In.ivl_days * (12000 + 8 * Out.ease), 10000, Out.ivl_days)
    /\ Out.reps = In.reps + 1
    /\ Out.due_ts = call.now + Out.ivl_days * 86400000
    /\ Out.learning_stage = 0
    /\ Out.lapses = In.lapses

\* the interval the last call would have returned had the card come to it
\* with the interval h
IvlFromBaseline(h) ==
  schedule([In EXCEPT !.ivl_days = h], call.rating, call.now).state.ivl_days

\* C18: after a review-mode fail has halved the interval to h, the interval
\* the card gets when it next leaves the ladder (Good past the last rung, or
\* Easy) is derived from h: it is not the same for every h.  From the default
\* state a card with reps > 0 on the ladder is one that lapsed in review mode
\* and carries the halved interval.
PostLapseBaseline ==
  (Rated({2, 3}) /\ In.reps > 0 /\ In.learning_stage >= 1
     /\ Out.learning_stage = 0) =>
    \E h \in 1 .. MaxIvl : IvlFromBaseline(h) # Out.ivl_days

\* the state a second call with the same rating and the same now returns
\* when it is given the state the last call returned (looked at when that
\* second call is within the bounds of the model)
Again == schedule(Out, call.rating, call.now).state

\* C20 as stated: for every non-suspended state s, rating 0..3 and now, if
\* s' = schedule(s, r, now) is not suspended then schedule(s', r, now)
\* differs from s'.
NotIdempotent ==
  (Rated(0 .. 3) /\ Out.suspended = 0 /\ Capped(Out, call.rating)) =>
    Again # Out

\* Hard on a card that the first call left on the ladder with the
\* difficulty at its upper clamp
SaturatedHard ==
  call.rating = 1 /\ Out.learning_stage \in {1, 2} /\ Out.difficulty = 100

\* C20 amended: under the same conditions the second call returns a state
\* different from s' unless the rating is Hard and s' is on the learning
\* ladder (learning_stage 1 or 2) with difficulty 1.0; in that case the
\* second call returns s' itself.
NotIdempotentUnlessSaturatedHard ==
  (Rated(0 .. 3) /\ Out.suspended = 0 /\ Capped(Out, call.rating)) =>
    /\ ~call.threw
    /\ ~SaturatedHard => Again # Out
    /\ SaturatedHard => Again = Out

\* both cases: the default card rated Hard until its difficulty is 1.0, where
\* one more Hard at the same time changes nothing
NotIdempotentUnlessSaturatedHardWitness ==
  /\ Rated({1}) /\ In.reps = 0 /\ In.learning_stage = 1
  /\ In.difficulty = 100 /\ In.lapses = 0
  /\ SaturatedHard
  /\ card = In /\ Again = card

\* the handler of submission i stands between its read and its return
Midway(i) == handler[i].pc \in {"read", "scheduled", "written"}

\* C19: when rating submissions for the same card are handled by the
\* 'api:rate' handler, the read of the stored state, the schedule call and
\* the write-back of one handler happen with no step of another handler in
\* between: two handlers are never midway together, the row a handler has
\* read is still the stored one when it writes, and so each write stores
\* schedule of what was stored just before it; the stored state is the
\* result of applying schedule once per handled submission, in the order the
\* handlers ran, and no update is lost.
RateIsAtomic ==
  /\ \A i, j \in Submission : (i # j /\ Midway(i)) => ~Midway(j)
  /\ \A i \in Submission :
       handler[i].pc \in {"read", "scheduled"} => card = handler[i].state
  /\ \A k \in 1 .. Len(log) :
       /\ log[k].read = log[k].before
       /\ schedule(log[k].before, log[k].rating, log[k].now) = Returned(log[k].after)
       /\ k > 1 => log[k].before = log[k - 1].after
  /\ Len(log) > 0 => card = log[Len(log)].after
  /\ \A i \in Submission :
       handler[i].pc \in {"written", "done"} =>
         \E k \in 1 .. Len(log) : log[k].id = i

\* the default card is rated Easy by the second submission and then Again by
\* the first: both handlers have returned and the stored state carries the
\* graduation and the lapse
RateIsAtomicWitness ==
  /\ handler[1].pc = "done" /\ handler[2].pc = "done"
  /\ Len(log) = 2
  /\ log[1].id = 2 /\ log[1].rating = 3 /\ log[1].before = DefaultState
  /\ log[2].id = 1 /\ log[2].rating = 0
  /\ card.reps = 1 /\ card.lapses = 1 /\ card.learning_stage = 1
  /\ new_shown = 1

\* a step in which the card leaves learning mode, learning_stage becoming 0
Graduation ==
  /\ card.learning_stage > 0 \/ card.reps = 0
  /\ card' # card
  /\ card'.learning_stage = 0 /\ card'.reps > 0

\* a step in which a card in review mode is rated Hard, Good or Easy
ReviewSuccess ==
  /\ card.learning_stage = 0 /\ card.reps > 0 /\ card.suspended = 0
  /\ call' # call /\ ~call'.threw /\ call'.rating \in {1, 2, 3}

\* C21 as stated: from the default state (reps = 0, no graduation yet) reps
\* goes up by one exactly in a graduation step and is left alone by every
\* other step, so that reps is the number of graduations so far.
RepsCountsGraduations ==
  [][card'.reps = card.reps + (IF Graduation THEN 1 ELSE 0)]_vars

\* C21 amended: reps goes up by one exactly in a graduation step or in a
\* review-mode success (Hard, Good or Easy on a card with learning_stage = 0
\* and reps > 0) and is left alone by every other step, so that reps is the
\* number of graduations plus the number of review-mode successes so far.
RepsCountsGraduationsAndSuccesses ==
  [][card'.reps = card.reps + (IF Graduation \/ ReviewSuccess THEN 1 ELSE 0)]_vars

\* the default card has graduated once and has then been rated Good in
\* review mode: one graduation, reps = 2
RepsCountsGraduationsAndSuccessesWitness ==
  /\ Rated({2})
  /\ In.learning_stage = 0 /\ In.reps = 1 /\ In.lapses = 0
  /\ card = Out /\ card.reps = 2

\* C25: reachable learning stages: in every state reached from the default
\* state by schedule calls, learning_stage is 0, 1 or 2, never 3 or more and
\* never negative.
ReachableLearningStages == card.learning_stage \in {0, 1, 2}

\* a card on the top rung was rated Good and left the ladder for review
ReachableLearningStagesWitness ==
  /\ Rated({2})
  /\ In.learning_stage = 2
  /\ card = Out /\ card.learning_stage = 0

NewHasNoIncomingTransition ==
  Rated(Rating) => ~(Out.reps = 0 /\ Out.learning_stage = 0)

\* a New card was rated Hard and stands on rung 1 with reps still 0
NewHasNoIncomingTransitionWitness ==
  /\ Rated({1})
  /\ In.reps = 0 /\ In.learning_stage = 0
  /\ card = Out /\ Out.reps = 0 /\ Out.learning_stage = 1

\* the interval a review-mode call with this rating gives the state: the
\* difficulty drifts, the ease follows, and the interval is scaled
IvlAfter(state, rating) ==
  LET difficulty == driftDifficulty(state.difficulty, rating)
  IN reviewIvl(state.ivl_days, rating, difficulty,
               easeFromDifficulty(difficulty))

\* a non-suspended review-mode state with an interval of at least a day and
\* a difficulty in [0, 1]
Reviewable(state) ==
  /\ state.suspended = 0
  /\ state.learning_stage = 0 /\ state.reps > 0
  /\ state.ivl_days >= 1
  /\ state.difficulty >= 0 /\ state.difficulty <= 100

\* C30: review-mode intervals are ordered by rating: for a non-suspended
\* review-mode state with ivl_days >= 1 and difficulty in [0, 1], the output
\* intervals H, G, E of ratings 1, 2, 3 on that state satisfy
\* H <= ivl_days < G <= E.
ReviewIntervalsOrdered ==
  (Rated({1, 2, 3}) /\ Reviewable(In))
    => /\ Out.ivl_days = IvlAfter(In, call.rating)
       /\ IvlAfter(In, 1) <= In.ivl_days
       /\ In.ivl_days < IvlAfter(In, 2)
       /\ IvlAfter(In, 2) <= IvlAfter(In, 3)

\* a one-day card of the highest difficulty was rated Good and got two days
ReviewIntervalsOrderedWitness ==
  /\ Rated({2}) /\ Reviewable(In)
  /\ In.ivl_days = 1 /\ In.difficulty = 100
  /\ card = Out /\ Out.ivl_days = 2

\* ------------------------------------------------------- the review queue
\* the last answer of getNextReviewCard was a card
Presented == shown.done /\ shown.id # 0

\* the row of the presented card as getNextReviewCard found it stored
ShownRow == shown.rows[shown.id]

\* C22: a rated card is never presented before it is due: a card
\* getNextReviewCard returns at time now that has been rated at least once
\* (learning_stage > 0 or reps > 0) has a stored due_ts of at most now.
RatedCardNotPresentedEarly ==
  (Presented /\ (ShownRow.learning_stage > 0 \/ ShownRow.reps > 0))
    => ShownRow.due_ts <= shown.now

WasDue(c) ==
  /\ shown.rows[c].suspended = 0
  /\ shown.rows[c].due_ts <= shown.now
  /\ shown.rows[c].learning_stage > 0 \/ shown.rows[c].reps > 0

\* card c was a non-suspended card with reps = 0 at that call
WasNew(c) == shown.rows[c].suspended = 0 /\ shown.rows[c].reps = 0

\* C24: selection priority and cap gating: when a due card exists,
\* getNextReviewCard returns the due card with the smallest due_ts, the
\* smallest id among equals; a card comes through the new-card query only
\* when no card is due and new_shown is strictly below daily_new_cap, and
\* it is then a non-suspended card with reps = 0; otherwise the answer is
\* null.
SelectionPriority ==
  shown.done =>
    /\ (\E c \in Card : WasDue(c))
         => /\ Presented /\ shown.via = "due" /\ WasDue(shown.id)
            /\ \A d \in Card :
                 WasDue(d) =>
                   \/ ShownRow.due_ts < shown.rows[d].due_ts
                   \/ /\ ShownRow.due_ts = shown.rows[d].due_ts
                      /\ shown.id <= d
    /\ shown.via = "new"
         => /\ Presented /\ WasNew(shown.id)
            /\ ~ \E c \in Card : WasDue(c)
            /\ shown.new_shown < daily_new_cap
    /\ ((~ \E c \in Card : WasDue(c)) /\ shown.new_shown < daily_new_cap
          /\ \E c \in Card : WasNew(c))
         => shown.via = "new"
    /\ ((~ \E c \in Card : WasDue(c))
          /\ ~(shown.new_shown < daily_new_cap /\ \E c \in Card : WasNew(c)))
         => shown.id = 0

\* two cards were due and the one with the larger id was returned, being
\* due earlier
SelectionPriorityWitness ==
  /\ Presented /\ shown.via = "due"
  /\ \E d \in Card : /\ d < shown.id
                     /\ WasDue(d)
                     /\ shown.rows[d].due_ts > ShownRow.due_ts

\* C26: the daily new-card cap holds: after any sequence of api:nextCard
\* and api:rate calls, the deck's new_shown counter for the day does not
\* exceed the deck's daily_new_cap.
NewShownWithinCap == new_shown <= daily_new_cap

\* ------------------------------------------------------ the review screen
\* C27: one rating per presentation: for each card loaded by loadNextCard
\* the screen issues at most one api:rate call for that card before the
\* next card is loaded, whatever the interleaving of rating keys, rating
\* buttons and the automatic rating of handleSubmit.
OneRatingPerPresentation == issued <= 1

====
